---- MODULE Spec2Model ----
(***************************************************************************)
(* A model of gateway/gateway.go: the CORS middleware (handleCORS and      *)
(* preflightHandler), the HTTPS redirect middleware (redirectHTTP), the    *)
(* status-capturing loggingResponseWriter, and the startup path            *)
(* (main, Run, newGateway).                                                *)
(*                                                                         *)
(* Header values and methods are TLA+ strings.  Host, RequestURI and the   *)
(* Location header are sequences of byte values, because http.Redirect     *)
(* rewrites the bytes of its url argument (hexEscapeNonASCII).             *)
(***************************************************************************)
EXTENDS Integers, Sequences, FiniteSets, TLC

VARIABLES
    phase,      \* harness position: "idle" | "accepted" | "served"
    req,        \* the request being served (NoRequest when idle)
    w,          \* the http.ResponseWriter handed to the outermost handler
    calls,      \* invocations of the innermost (wrapped) handler, in order
    path,       \* handlers of this repository entered for the request, in order
    lrw,        \* the loggingResponseWriter (lrw.made = FALSE before creation)
    under,      \* the ResponseWriter embedded in lrw
    ops,        \* history of the wrapped handler's operations on lrw
    pc,         \* position of the process in main/Run/newGateway
    regAttempts,\* calls of RegisterThingsHandlerFromEndpoint so far
    listens,    \* calls of http.ListenAndServe so far
    regErr,     \* what registration returned: "none" before, "" for nil
    runErr,     \* the error Run returned ("" while it has not returned)
    cjob,       \* concurrent serving: what each goroutine serves
    cpc,        \* concurrent serving: the line each goroutine is about to run
    clocal,     \* concurrent serving: handleCORS's local variable origin
    cw,         \* concurrent serving: each goroutine's response writer
    ccalls,     \* concurrent serving: wrapped-handler invocations
    clrw,       \* concurrent serving: each goroutine's loggingResponseWriter
    headers,    \* package-level var headers (gateway.go:78)
    methods     \* package-level var methods (gateway.go:92)

vars == <<phase, req, w, calls, path, lrw, under, ops, pc, regAttempts,
          listens, regErr, runErr, cjob, cpc, clocal, cw, ccalls, clrw,
          headers, methods>>

midVars == <<phase, req, w, calls, path>>
lrwVars == <<lrw, under, ops>>
runVars == <<pc, regAttempts, listens, regErr, runErr>>
concVars == <<cjob, cpc, clocal, cw, ccalls, clrw>>
pkgVars == <<headers, methods>>

-----------------------------------------------------------------------------
(* Bounds *)

\* most values one request header carries (Header.Get reads the first)
MaxVals == 1
\* most operations the wrapped handler performs on a loggingResponseWriter
MaxOps == 3
\* requests in flight at once
NReq == 2

-----------------------------------------------------------------------------
(* Program constants *)

StatusOK == 200
StatusMovedPermanently == 301
\* utf8.RuneSelf, the first byte value hexEscapeNonASCII escapes
RuneSelf == 128

\* var headers = []string{...}
InitHeaders ==
    << "Accept", "Accept-Encoding", "Authorization", "Content-Type", "Origin",
       "User-Agent", "X-CSRF-Token", "X-CSRFToken", "X-Request-ID",
       "X-Requested-With" >>

\* var methods = []string{http.MethodGet, ...}
InitMethods == << "GET", "HEAD", "POST", "PUT", "PATCH", "DELETE" >>

-----------------------------------------------------------------------------
(* Byte strings *)

\* "https://"
HttpsPrefix == << 104, 116, 116, 112, 115, 58, 47, 47 >>
\* "example.com"
HostExample == << 101, 120, 97, 109, 112, 108, 101, 46, 99, 111, 109 >>
\* "a.io:8080"
HostPort == << 97, 46, 105, 111, 58, 56, 48, 56, 48 >>
\* "/foo?bar=1"
UriFoo == << 47, 102, 111, 111, 63, 98, 97, 114, 61, 49 >>
\* "/"
UriRoot == << 47 >>
\* "/" followed by the two bytes of U+00E9 in UTF-8, sent raw by the client
UriRaw == << 47, 195, 169 >>

\* strconv.AppendInt(b, n, 16) for one hexadecimal digit: '0'..'9', 'a'..'f'
HexDigit(n) == IF n < 10 THEN 48 + n ELSE 87 + n

\* One byte of hexEscapeNonASCII: '%' and the byte in base 16 when it is
\* >= utf8.RuneSelf, the byte itself otherwise.
EscapeByte(b) ==
    IF b >= RuneSelf THEN << 37, HexDigit(b \div 16), HexDigit(b % 16) >>
    ELSE << b >>

RECURSIVE hexEscapeNonASCII(_)
hexEscapeNonASCII(s) ==
    IF s = << >> THEN << >>
    ELSE EscapeByte(Head(s)) \o hexEscapeNonASCII(Tail(s))

\* strings.Join(elems, sep)
RECURSIVE Join(_, _)
Join(elems, sep) ==
    IF Len(elems) = 0 THEN ""
    ELSE IF Len(elems) = 1 THEN elems[1]
    ELSE elems[1] \o sep \o Join(Tail(elems), sep)

-----------------------------------------------------------------------------
(* Requests *)

\* every list of at most n values drawn from V
RECURSIVE ValueLists(_, _)
ValueLists(V, n) ==
    IF n = 0 THEN { << >> }
    ELSE LET shorter == ValueLists(V, n - 1)
         IN shorter \cup { Append(l, v) : l \in shorter, v \in V }

Methods == { "GET", "OPTIONS", "POST" }
OriginValues == { "", "https://a.example", "https://b.example" }
RequestMethodValues == { "", "POST" }
ProtoValues == { "http", "https", "HTTP", "http,https" }
Hosts == { HostExample, HostPort }
URIs == { UriFoo, UriRoot, UriRaw }

\* r.Method, r.Host, r.RequestURI and the three entries of r.Header the
\* code reads; each entry is the list of values received for that name.
Requests ==
    [ Method : Methods,
      Host : Hosts,
      RequestURI : URIs,
      Origin : ValueLists(OriginValues, MaxVals),
      ACRM : ValueLists(RequestMethodValues, MaxVals),
      Proto : ValueLists(ProtoValues, MaxVals) ]

NoRequest == [ Method |-> "" ]

\* http.Header.Get: the first value of the entry, "" when there is none
Get(values) == IF values = << >> THEN "" ELSE values[1]

-----------------------------------------------------------------------------
(* Response writers *)

\* a fresh writer: no header set, no status written (0)
NewWriter == [ header |-> [ k \in {} |-> "" ], status |-> 0 ]

\* http.Header.Set
Set(h, k, v) == [ x \in (DOMAIN h) \cup { k } |-> IF x = k THEN v ELSE h[x] ]

SetHeader(wr, k, v) == [ wr EXCEPT !.header = Set(wr.header, k, v) ]

Has(wr, k) == k \in DOMAIN wr.header

CORSNames ==
    { "Access-Control-Allow-Origin", "Access-Control-Allow-Headers",
      "Access-Control-Allow-Methods", "Access-Control-Max-Age" }

-----------------------------------------------------------------------------
(* Handlers.  A handler maps a serving state st = [w, calls, path] and a   *)
(* request to the serving state it leaves behind.  A chain lists the       *)
(* handlers from the outermost to the innermost; out is the status the     *)
(* innermost handler writes (0: it writes none).                           *)

NewServing == [ w |-> NewWriter, calls |-> << >>, path |-> << >> ]

Enter(st, name) == [ st EXCEPT !.path = Append(@, name) ]

\* the innermost handler's ServeHTTP(w, r): it is handed w and r as they
\* are at the call, and may write a status
Invoke(st, r, out) ==
    [ st EXCEPT !.calls = Append(@, [ req |-> r, w |-> st.w ]),
                !.w.status = IF out = 0 THEN @ ELSE out ]

\* preflightHandler (gateway.go:103)
preflightNoMaxAge(wr, r) ==
    SetHeader(
        SetHeader(wr, "Access-Control-Allow-Headers", Join(headers, ",")),
        "Access-Control-Allow-Methods", Join(methods, ","))
preflightHandler(wr, r) ==
    SetHeader(
        SetHeader(
            SetHeader(wr, "Access-Control-Allow-Headers", Join(headers, ",")),
            "Access-Control-Allow-Methods", Join(methods, ",")),
        "Access-Control-Max-Age", "3600")

\* gateway.go:34, the condition origin != ""
HasOriginAlways(origin) == TRUE
HasOrigin(origin) == origin # ""

\* gateway.go:35
AllowOriginAny(wr, origin) == SetHeader(wr, "Access-Control-Allow-Origin", "*")
AllowOrigin(wr, origin) == SetHeader(wr, "Access-Control-Allow-Origin", origin)

\* gateway.go:36
IsPreflightEmptyACRM(r) == r.Method = "OPTIONS" /\ Get(r.ACRM) = ""
IsPreflight(r) == r.Method = "OPTIONS" /\ Get(r.ACRM) # ""

\* gateway.go:64
IsPlainHTTPFold(r) == Get(r.Proto) \in { "http", "HTTP" }
IsPlainHTTP(r) == Get(r.Proto) = "http"

\* gateway.go:67
redirectToPlain(r) == << 104, 116, 116, 112, 58, 47, 47 >> \o r.Host \o r.RequestURI
redirectTo(r) == HttpsPrefix \o r.Host \o r.RequestURI

\* http.Redirect(w, r, url, code) for an absolute url: Location is the url
\* with its non-ASCII bytes escaped, GET and HEAD get a Content-Type unless
\* one is set, then the status is written.
Redirect(wr, r, url, code) ==
    LET w1 == SetHeader(wr, "Location", hexEscapeNonASCII(url))
        w2 == IF ~Has(wr, "Content-Type") /\ r.Method \in { "GET", "HEAD" }
              THEN SetHeader(w1, "Content-Type", "text/html; charset=utf-8")
              ELSE w1
    IN [ w2 EXCEPT !.status = code ]

RECURSIVE Serve(_, _, _, _)
Serve(chain, st, r, out) ==
    LET h == Head(chain)
        rest == Tail(chain)
        st1 == Enter(st, h)
    IN CASE h = "handleCORS" ->
              LET origin == Get(r.Origin)
              IN IF HasOrigin(origin)
                 THEN LET st2 == [ st1 EXCEPT !.w = AllowOrigin(@, origin) ]
                      IN IF IsPreflight(r)
                         THEN [ Enter(st2, "preflightHandler")
                                  EXCEPT !.w = preflightHandler(@, r) ]
                         ELSE Serve(rest, st2, r, out)
                 ELSE Serve(rest, st1, r, out)
         [] h = "redirectHTTP" ->
              IF IsPlainHTTP(r)
              THEN [ st1 EXCEPT
                       !.w = Redirect(@, r, redirectTo(r), StatusMovedPermanently) ]
              ELSE Serve(rest, st1, r, out)
         [] h = "mux" -> Serve(rest, st1, r, out)
         [] OTHER -> Invoke(st1, r, out)

\* the statuses a wrapped handler writes; 0: it writes none
HandlerStatuses == { 0, 200, 404 }

\* handleCORS(h) and redirectHTTP(h) around a recording handler h
CORSChain == << "handleCORS", "h" >>
RedirectChain == << "redirectHTTP", "h" >>

\* what Run hands to ListenAndServe: handleCORS(mux), mux.Handle("/", gw)
RunChainWithRedirect == << "handleCORS", "redirectHTTP", "mux", "gw" >>
RunChain == << "handleCORS", "mux", "gw" >>

-----------------------------------------------------------------------------
(* Serving one request through a middleware *)

MidInit ==
    /\ phase = "idle"
    /\ req = NoRequest
    /\ w = NewWriter
    /\ calls = << >>
    /\ path = << >>

NoLrwYet == [ made |-> FALSE, statusCode |-> 0 ]

LrwIdle ==
    /\ lrw = NoLrwYet
    /\ under = [ headerCalls |-> << >>, bodyWrites |-> 0 ]
    /\ ops = << >>

RunIdle ==
    /\ pc = "main"
    /\ regAttempts = 0
    /\ listens = 0
    /\ regErr = "none"
    /\ runErr = ""

NoJob == [ kind |-> "none", req |-> NoRequest, code |-> 0 ]

ConcIdle ==
    /\ cjob = [ i \in 1..NReq |-> NoJob ]
    /\ cpc = [ i \in 1..NReq |-> "idle" ]
    /\ clocal = [ i \in 1..NReq |-> "" ]
    /\ cw = [ i \in 1..NReq |-> NewWriter ]
    /\ ccalls = [ i \in 1..NReq |-> << >> ]
    /\ clrw = [ i \in 1..NReq |-> NoLrwYet ]

PkgInit ==
    /\ headers = InitHeaders
    /\ methods = InitMethods

Init == MidInit /\ LrwIdle /\ RunIdle /\ ConcIdle /\ PkgInit

\* a request arrives
Accept ==
    /\ phase = "idle"
    /\ \E r \in Requests : req' = r
    /\ phase' = "accepted"
    /\ UNCHANGED <<w, calls, path>>

ServeChain(chain) ==
    /\ phase = "accepted"
    /\ \E out \in HandlerStatuses :
         LET st == Serve(chain, NewServing, req, out)
         IN /\ w' = st.w
            /\ calls' = st.calls
            /\ path' = st.path
    /\ phase' = "served"
    /\ UNCHANGED req

\* handleCORS(h).ServeHTTP(w, r)
HandleCORS ==
    /\ ServeChain(CORSChain)
    /\ UNCHANGED <<lrwVars, runVars, concVars, pkgVars>>

\* redirectHTTP(h).ServeHTTP(w, r)
RedirectHTTP ==
    /\ ServeChain(RedirectChain)
    /\ UNCHANGED <<lrwVars, runVars, concVars, pkgVars>>

\* the response is complete; the writer and the request are discarded
Finish ==
    /\ phase = "served"
    /\ phase' = "idle"
    /\ req' = NoRequest
    /\ w' = NewWriter
    /\ calls' = << >>
    /\ path' = << >>

Arrive == Accept /\ UNCHANGED <<lrwVars, runVars, concVars, pkgVars>>
Complete == Finish /\ UNCHANGED <<lrwVars, runVars, concVars, pkgVars>>

Next == Arrive \/ HandleCORS \/ RedirectHTTP \/ Complete

Spec == Init /\ [][Next]_vars

-----------------------------------------------------------------------------
(* loggingResponseWriter *)

\* the status codes a handler passes to WriteHeader
Codes == { 200, 301, 404, 500 }

\* gateway.go:56
CaptureFirst(l, code) ==
    IF l.statusCode = StatusOK THEN [ l EXCEPT !.statusCode = code ] ELSE l
Capture(l, code) == [ l EXCEPT !.statusCode = code ]

\* gateway.go:57
Forward(u, code) == [ u EXCEPT !.headerCalls = Append(@, code) ]

\* NewLoggingResponseWriter(w)
NewLoggingResponseWriter ==
    /\ ~lrw.made
    /\ lrw' = [ made |-> TRUE, statusCode |-> StatusOK ]
    /\ under' = [ headerCalls |-> << >>, bodyWrites |-> 0 ]
    /\ ops' = << >>
    /\ UNCHANGED <<midVars, runVars, concVars, pkgVars>>

\* lrw.WriteHeader(code)
WriteHeader ==
    /\ lrw.made
    /\ Len(ops) < MaxOps
    /\ \E code \in Codes :
         /\ lrw' = Capture(lrw, code)
         /\ under' = Forward(under, code)
         /\ ops' = Append(ops, [ op |-> "WriteHeader", code |-> code ])
    /\ UNCHANGED <<midVars, runVars, concVars, pkgVars>>

\* lrw.Write(b): loggingResponseWriter declares no Write, so the call is
\* the embedded ResponseWriter's and never passes through lrw.WriteHeader
Write ==
    /\ lrw.made
    /\ Len(ops) < MaxOps
    /\ under' = [ under EXCEPT !.bodyWrites = @ + 1 ]
    /\ ops' = Append(ops, [ op |-> "Write", code |-> 0 ])
    /\ UNCHANGED <<lrw, midVars, runVars, concVars, pkgVars>>

NextWriter == NewLoggingResponseWriter \/ WriteHeader \/ Write

SpecWriter == Init /\ [][NextWriter]_vars

-----------------------------------------------------------------------------
(* Startup: main, Run, newGateway *)

\* what RegisterThingsHandlerFromEndpoint returns ("" is nil)
RegisterErrors == { "", "register: dial failed" }
\* what http.ListenAndServe returns at once ("": it keeps serving)
ListenErrors == { "", "listen: address already in use" }

\* gateway.go:118, and newGateway's gateway.go:24
AfterRegisterIgnore(err) == "listen"
AfterRegister(err) == IF err # "" THEN "returned" ELSE "listen"

\* main calls Run, which calls newGateway
CallRun ==
    /\ pc = "main"
    /\ pc' = "newGateway"
    /\ UNCHANGED <<regAttempts, listens, regErr, runErr>>
    /\ UNCHANGED <<midVars, lrwVars, concVars, pkgVars>>

\* newGateway: RegisterThingsHandlerFromEndpoint, then Run's err != nil
Register ==
    /\ pc = "newGateway"
    /\ \E err \in RegisterErrors :
         /\ regErr' = err
         /\ pc' = AfterRegister(err)
         /\ runErr' = IF pc' = "returned" THEN err ELSE runErr
    /\ regAttempts' = regAttempts + 1
    /\ UNCHANGED listens
    /\ UNCHANGED <<midVars, lrwVars, concVars, pkgVars>>

\* http.ListenAndServe(address, handleCORS(mux))
Listen ==
    /\ pc = "listen"
    /\ listens' = listens + 1
    /\ \E err \in ListenErrors :
         /\ pc' = IF err = "" THEN "serving" ELSE "returned"
         /\ runErr' = err
    /\ UNCHANGED <<regAttempts, regErr>>
    /\ UNCHANGED <<midVars, lrwVars, concVars, pkgVars>>

\* main: log.Fatal(err)
Fatal ==
    /\ pc = "returned"
    /\ runErr # ""
    /\ pc' = "exited"
    /\ UNCHANGED <<regAttempts, listens, regErr, runErr>>
    /\ UNCHANGED <<midVars, lrwVars, concVars, pkgVars>>

RunArrive ==
    /\ pc = "serving"
    /\ Accept
    /\ UNCHANGED <<runVars, lrwVars, concVars, pkgVars>>

\* the handler Run serves: handleCORS(mux).ServeHTTP(w, r)
RunServe ==
    /\ pc = "serving"
    /\ ServeChain(RunChain)
    /\ UNCHANGED <<runVars, lrwVars, concVars, pkgVars>>

RunComplete ==
    /\ pc = "serving"
    /\ Finish
    /\ UNCHANGED <<runVars, lrwVars, concVars, pkgVars>>

NextRun ==
    CallRun \/ Register \/ Listen \/ Fatal \/ RunArrive \/ RunServe \/ RunComplete

SpecRun == Init /\ [][NextRun]_vars

-----------------------------------------------------------------------------
(* Properties of the middlewares, checked under Spec *)

Range(f) == { f[i] : i \in DOMAIN f }

ViaCORS == phase = "served" /\ path[1] = "handleCORS"
ViaRedirect == phase = "served" /\ path[1] = "redirectHTTP"

HeaderIs(wr, k, v) == Has(wr, k) /\ wr.header[k] = v

AllowHeadersLine ==
    "Accept,Accept-Encoding,Authorization,Content-Type,Origin,User-Agent,X-CSRF-Token,X-CSRFToken,X-Request-ID,X-Requested-With"
AllowMethodsLine == "GET,HEAD,POST,PUT,PATCH,DELETE"

\* C1: an OPTIONS request through handleCORS with a non-empty Origin and a
\* non-empty Access-Control-Request-Method gets the full header allow-list,
\* the full method allow-list and Access-Control-Max-Age: 3600, and the
\* wrapped handler is not invoked.
C1_PreflightResponse ==
    ( /\ ViaCORS
      /\ req.Method = "OPTIONS"
      /\ Get(req.Origin) # ""
      /\ Get(req.ACRM) # "" )
    => /\ HeaderIs(w, "Access-Control-Allow-Headers", AllowHeadersLine)
       /\ HeaderIs(w, "Access-Control-Allow-Methods", AllowMethodsLine)
       /\ HeaderIs(w, "Access-Control-Max-Age", "3600")
       /\ Len(calls) = 0

C1_Witness ==
    /\ ViaCORS
    /\ req.Method = "OPTIONS"
    /\ req.Origin = << "https://a.example" >>
    /\ req.ACRM = << "POST" >>
    /\ HeaderIs(w, "Access-Control-Max-Age", "3600")
    /\ calls = << >>

\* C2: a request through handleCORS whose Origin is a non-empty X gets
\* Access-Control-Allow-Origin: X, whatever its method and whether or not
\* it is a preflight.
C2_OriginEchoed ==
    (ViaCORS /\ Get(req.Origin) # "")
    => HeaderIs(w, "Access-Control-Allow-Origin", Get(req.Origin))

C2_Witness ==
    /\ ViaCORS
    /\ req.Method = "GET"
    /\ req.Origin = << "https://b.example" >>
    /\ HeaderIs(w, "Access-Control-Allow-Origin", "https://b.example")
    /\ Len(calls) = 1

PreflightWritten ==
    /\ Has(w, "Access-Control-Allow-Headers")
    /\ Has(w, "Access-Control-Allow-Methods")
    /\ HeaderIs(w, "Access-Control-Max-Age", "3600")
    /\ "h" \notin Range(path)
    /\ calls = << >>

\* C3 as stated: every OPTIONS request through handleCORS that carries
\* Access-Control-Request-Method is answered as a preflight, whether or not
\* it carries an Origin.
C3_PreflightWithoutOrigin ==
    (ViaCORS /\ req.Method = "OPTIONS" /\ Get(req.ACRM) # "")
    => PreflightWritten

\* C3 as amended: an OPTIONS request through handleCORS that carries a
\* non-empty Access-Control-Request-Method is answered as a preflight
\* (the three headers written, the wrapped handler not entered) when its
\* Origin is non-empty as well; without an Origin it goes to the wrapped
\* handler.
C3_PreflightNeedsOrigin ==
    (ViaCORS /\ req.Method = "OPTIONS" /\ Get(req.ACRM) # "")
    => IF Get(req.Origin) # ""
       THEN PreflightWritten /\ path = << "handleCORS", "preflightHandler" >>
       ELSE path = << "handleCORS", "h" >> /\ Len(calls) = 1

C3_Witness ==
    /\ ViaCORS
    /\ req.Method = "OPTIONS"
    /\ req.ACRM = << "POST" >>
    /\ req.Origin = << "https://b.example" >>
    /\ path = << "handleCORS", "preflightHandler" >>
    /\ PreflightWritten

\* C4: a request through handleCORS with no Origin, or an empty one, gets
\* none of the four Access-Control-* headers and the wrapped handler is
\* invoked exactly once, also for OPTIONS with Access-Control-Request-Method.
C4_NoOriginPassThrough ==
    (ViaCORS /\ Get(req.Origin) = "")
    => /\ (DOMAIN w.header) \cap CORSNames = {}
       /\ Len(calls) = 1
       /\ calls[1].req = req
       /\ (DOMAIN calls[1].w.header) \cap CORSNames = {}

C4_Witness ==
    /\ ViaCORS
    /\ req.Method = "OPTIONS"
    /\ req.ACRM = << "POST" >>
    /\ req.Origin = << >>
    /\ (DOMAIN w.header) \cap CORSNames = {}
    /\ Len(calls) = 1

AllASCII(s) == \A i \in DOMAIN s : s[i] < RuneSelf

Verbatim(r) == HttpsPrefix \o r.Host \o r.RequestURI

\* C5 as stated: X-Forwarded-Proto: http through redirectHTTP gives a 301
\* whose Location is exactly "https://" + Host + RequestURI, and the wrapped
\* handler is not invoked.
C5_LocationVerbatim ==
    (ViaRedirect /\ Get(req.Proto) = "http")
    => /\ w.status = StatusMovedPermanently
       /\ HeaderIs(w, "Location", Verbatim(req))
       /\ calls = << >>

\* C5 as amended: X-Forwarded-Proto: http through redirectHTTP gives a 301
\* and the wrapped handler is not invoked; Location is "https://" + Host +
\* RequestURI, byte for byte when these hold only ASCII bytes, and with
\* every byte of 0x80 and above written as % and its two hexadecimal digits
\* otherwise.
C5_LocationEscaped ==
    (ViaRedirect /\ Get(req.Proto) = "http")
    => /\ w.status = StatusMovedPermanently
       /\ calls = << >>
       /\ Has(w, "Location")
       /\ AllASCII(w.header["Location"])
       /\ AllASCII(Verbatim(req)) => w.header["Location"] = Verbatim(req)
       /\ w.header["Location"] = hexEscapeNonASCII(Verbatim(req))

\* Host example.com and URI /foo?bar=1 give https://example.com/foo?bar=1
C5_Witness ==
    /\ ViaRedirect
    /\ req.Proto = << "http" >>
    /\ req.Host = HostExample
    /\ req.RequestURI = UriFoo
    /\ w.status = 301
    /\ w.header["Location"] =
         << 104, 116, 116, 112, 115, 58, 47, 47,
            101, 120, 97, 109, 112, 108, 101, 46, 99, 111, 109,
            47, 102, 111, 111, 63, 98, 97, 114, 61, 49 >>

\* C6: a request through redirectHTTP whose X-Forwarded-Proto is absent or
\* is anything but exactly "http" reaches the wrapped handler exactly once,
\* with the request and the writer as redirectHTTP received them, and
\* redirectHTTP writes no status and no Location.
C6_NoRedirect ==
    (ViaRedirect /\ Get(req.Proto) # "http")
    => /\ Len(calls) = 1
       /\ calls[1].req = req
       /\ calls[1].w = NewWriter
       /\ ~Has(w, "Location")
       /\ w.status # StatusMovedPermanently
       /\ w.header = NewWriter.header

C6_Witness ==
    /\ ViaRedirect
    /\ req.Proto = << "HTTP" >>
    /\ Len(calls) = 1
    /\ calls[1].w = NewWriter
    /\ ~Has(w, "Location")

-----------------------------------------------------------------------------
(* Properties of loggingResponseWriter, checked under SpecWriter *)

WriteHeaderOps == SelectSeq(ops, LAMBDA o : o.op = "WriteHeader")

-----------------------------------------------------------------------------
(* Properties of the startup path, checked under SpecRun *)

\* C8: registration is attempted once, before the listener; when it fails
\* Run returns its error, the listener is never started and main exits
\* fatally; the listener starts only after a successful registration.
C8_StartupOrder ==
    /\ regAttempts <= 1
    /\ listens <= 1
    /\ (regAttempts = 0) = (regErr = "none")
    /\ (listens = 1 \/ pc \in { "listen", "serving" }) => regErr = ""
    /\ (regErr \notin { "none", "" }) =>
         /\ listens = 0
         /\ runErr = regErr
         /\ pc \in { "returned", "exited" }
    /\ pc = "exited" => runErr # ""
    /\ (pc = "returned" /\ runErr # "") => ENABLED Fatal

C8_Witness ==
    /\ pc = "exited"
    /\ regAttempts = 1
    /\ regErr = "register: dial failed"
    /\ runErr = "register: dial failed"
    /\ listens = 0

Before(a, b) ==
    \E i, j \in DOMAIN path : i < j /\ path[i] = a /\ path[j] = b

-----------------------------------------------------------------------------
(* Requests served concurrently: one goroutine per request, each at a line *)
(* of the handler it runs; the goroutines' steps interleave freely.        *)

Slots == 1..NReq

BaseRequest ==
    [ Method |-> "GET", Host |-> HostExample, RequestURI |-> UriRoot,
      Origin |-> << >>, ACRM |-> << "POST" >>, Proto |-> << >> ]

ConcCORSRequests ==
    { [ BaseRequest EXCEPT !.Method = m, !.Origin = o ] :
        m \in { "GET", "OPTIONS" },
        o \in { << >>, << "https://a.example" >>, << "https://b.example" >> } }

ConcRedirectRequests ==
    { [ BaseRequest EXCEPT !.Proto = p ] :
        p \in { << >>, << "http" >>, << "https" >> } }

\* what a goroutine serves: a request through handleCORS(h), a request
\* through redirectHTTP(h), or a handler writing code (0: nothing) to a
\* loggingResponseWriter
ConcJobs ==
    { [ kind |-> "handleCORS", req |-> r, code |-> 0 ] : r \in ConcCORSRequests }
    \cup
    { [ kind |-> "redirectHTTP", req |-> r, code |-> 0 ] : r \in ConcRedirectRequests }
    \cup
    { [ kind |-> "lrw", req |-> BaseRequest, code |-> c ] : c \in { 0, 404, 500 } }

\* first line of each kind of job
Entry(kind) ==
    CASE kind = "handleCORS" -> "L34"
      [] kind = "redirectHTTP" -> "L64"
      [] OTHER -> "L52"

\* where invocation i of handleCORS's closure keeps its variable origin:
\* a variable declared in the closure, so one per invocation
OriginShared(i) == 1
OriginSlot(i) == i

ConcFrame(i) ==
    /\ UNCHANGED <<midVars, lrwVars, runVars, pkgVars>>

CAccept(i) ==
    /\ cpc[i] = "idle"
    /\ \E j \in ConcJobs :
         /\ cjob' = [ cjob EXCEPT ![i] = j ]
         /\ cpc' = [ cpc EXCEPT ![i] = Entry(j.kind) ]
    /\ UNCHANGED <<clocal, cw, ccalls, clrw>>
    /\ ConcFrame(i)

\* gateway.go:34  if origin := r.Header.Get("Origin"); origin != ""
CL34(i) ==
    /\ cpc[i] = "L34"
    /\ LET origin == Get(cjob[i].req.Origin)
       IN /\ clocal' = [ clocal EXCEPT ![OriginSlot(i)] = origin ]
          /\ cpc' = [ cpc EXCEPT ![i] = IF HasOrigin(origin) THEN "L35" ELSE "L41" ]
    /\ UNCHANGED <<cjob, cw, ccalls, clrw>>
    /\ ConcFrame(i)

\* gateway.go:35
CL35(i) ==
    /\ cpc[i] = "L35"
    /\ cw' = [ cw EXCEPT ![i] = AllowOrigin(@, clocal[OriginSlot(i)]) ]
    /\ cpc' = [ cpc EXCEPT ![i] = "L36" ]
    /\ UNCHANGED <<cjob, clocal, ccalls, clrw>>
    /\ ConcFrame(i)

\* gateway.go:36
CL36(i) ==
    /\ cpc[i] = "L36"
    /\ cpc' = [ cpc EXCEPT ![i] = IF IsPreflight(cjob[i].req) THEN "L37" ELSE "L41" ]
    /\ UNCHANGED <<cjob, clocal, cw, ccalls, clrw>>
    /\ ConcFrame(i)

\* gateway.go:37-38  preflightHandler(w, r); return
CL37(i) ==
    /\ cpc[i] = "L37"
    /\ cw' = [ cw EXCEPT ![i] = preflightHandler(@, cjob[i].req) ]
    /\ cpc' = [ cpc EXCEPT ![i] = "done" ]
    /\ UNCHANGED <<cjob, clocal, ccalls, clrw>>
    /\ ConcFrame(i)

\* gateway.go:41 and gateway.go:73  h.ServeHTTP(w, r)
CServeHTTP(i) ==
    /\ cpc[i] \in { "L41", "L73" }
    /\ ccalls' = [ ccalls EXCEPT ![i] = Append(@, [ req |-> cjob[i].req, w |-> cw[i] ]) ]
    /\ cpc' = [ cpc EXCEPT ![i] = "done" ]
    /\ UNCHANGED <<cjob, clocal, cw, clrw>>
    /\ ConcFrame(i)

\* gateway.go:64
CL64(i) ==
    /\ cpc[i] = "L64"
    /\ cpc' = [ cpc EXCEPT ![i] = IF IsPlainHTTP(cjob[i].req) THEN "L67" ELSE "L73" ]
    /\ UNCHANGED <<cjob, clocal, cw, ccalls, clrw>>
    /\ ConcFrame(i)

\* gateway.go:67-69
CL67(i) ==
    /\ cpc[i] = "L67"
    /\ cw' = [ cw EXCEPT ![i] =
                 Redirect(@, cjob[i].req, redirectTo(cjob[i].req), StatusMovedPermanently) ]
    /\ cpc' = [ cpc EXCEPT ![i] = "done" ]
    /\ UNCHANGED <<cjob, clocal, ccalls, clrw>>
    /\ ConcFrame(i)

\* gateway.go:52, then the handler either calls WriteHeader or returns
CL52(i) ==
    /\ cpc[i] = "L52"
    /\ clrw' = [ clrw EXCEPT ![i] = [ made |-> TRUE, statusCode |-> StatusOK ] ]
    /\ cpc' = [ cpc EXCEPT ![i] = IF cjob[i].code = 0 THEN "done" ELSE "L56" ]
    /\ UNCHANGED <<cjob, clocal, cw, ccalls>>
    /\ ConcFrame(i)

\* gateway.go:56
CL56(i) ==
    /\ cpc[i] = "L56"
    /\ clrw' = [ clrw EXCEPT ![i] = Capture(@, cjob[i].code) ]
    /\ cpc' = [ cpc EXCEPT ![i] = "L57" ]
    /\ UNCHANGED <<cjob, clocal, cw, ccalls>>
    /\ ConcFrame(i)

\* gateway.go:57
CL57(i) ==
    /\ cpc[i] = "L57"
    /\ cw' = [ cw EXCEPT ![i].status = cjob[i].code ]
    /\ cpc' = [ cpc EXCEPT ![i] = "done" ]
    /\ UNCHANGED <<cjob, clocal, ccalls, clrw>>
    /\ ConcFrame(i)

\* the response is complete: the goroutine's writers are discarded
CFinish(i) ==
    /\ cpc[i] = "done"
    /\ cjob' = [ cjob EXCEPT ![i] = NoJob ]
    /\ cpc' = [ cpc EXCEPT ![i] = "idle" ]
    /\ cw' = [ cw EXCEPT ![i] = NewWriter ]
    /\ ccalls' = [ ccalls EXCEPT ![i] = << >> ]
    /\ clrw' = [ clrw EXCEPT ![i] = NoLrwYet ]
    /\ clocal' = [ clocal EXCEPT ![OriginSlot(i)] = "" ]
    /\ ConcFrame(i)

NextConc ==
    \E i \in Slots :
      \/ CAccept(i)
      \/ CL34(i)
      \/ CL35(i)
      \/ CL36(i)
      \/ CL37(i)
      \/ CServeHTTP(i)
      \/ CL64(i)
      \/ CL67(i)
      \/ CL52(i)
      \/ CL56(i)
      \/ CL57(i)
      \/ CFinish(i)

SpecConc == Init /\ [][NextConc]_vars

-----------------------------------------------------------------------------
(* Properties of concurrent serving, checked under SpecConc *)

\* what the handler chain leaves when it serves r with no other request
Alone(chain, r) ==
    LET st == Serve(chain, NewServing, r, 0)
    IN [ w |-> st.w, calls |-> st.calls ]

\* C10: whatever the interleaving, a finished request's response headers,
\* redirect and captured status are those it gets when served alone, and
\* the package-level allow-lists keep their initial value.
C10_Isolated ==
    /\ headers = InitHeaders
    /\ methods = InitMethods
    /\ \A i \in Slots :
         cpc[i] = "done" =>
           CASE cjob[i].kind = "handleCORS" ->
                  [ w |-> cw[i], calls |-> ccalls[i] ] = Alone(CORSChain, cjob[i].req)
             [] cjob[i].kind = "redirectHTTP" ->
                  [ w |-> cw[i], calls |-> ccalls[i] ] = Alone(RedirectChain, cjob[i].req)
             [] OTHER ->
                  /\ clrw[i].statusCode = IF cjob[i].code = 0 THEN 200 ELSE cjob[i].code
                  /\ cw[i].status = cjob[i].code

C10_Witness ==
    /\ cpc[1] = "done"
    /\ cpc[2] = "done"
    /\ cjob[1].kind = "handleCORS"
    /\ cjob[2].kind = "handleCORS"
    /\ HeaderIs(cw[1], "Access-Control-Allow-Origin", "https://a.example")
    /\ HeaderIs(cw[2], "Access-Control-Allow-Origin", "https://b.example")
    /\ clocal[1] = "https://a.example"
    /\ clocal[2] = "https://b.example"

====
